---- MODULE Spec2Model ----
(***************************************************************************)
(* Model of the virtio entropy device emulation                            *)
(* (hw/pci/virtio/virtio_rnd.c): the VBS-K session state machine, the      *)
(* option parser of virtio_rnd_init, the user-space drain loop             *)
(* virtio_rnd_notify, virtio_rnd_reset and virtio_rnd_deinit.              *)
(***************************************************************************)
EXTENDS Integers, Sequences, FiniteSets, TLC

(* ------------------------------ bounds --------------------------------- *)
\* number of descriptor chains the guest submits over the run
MaxChains == 2
\* largest buffer length (iov_len) of a chain
MaxLen == 2

(* ------------------------ program constants ---------------------------- *)
VIRTIO_RND_RINGSZ == 64
\* virtio_rnd_ops.nvq / virtio_rnd_ops_k.nvq
OpsNvq == 1
\* pio_len argument of virtio_rnd_kernel_dev_set
KickPioLen == 2
\* offset of the kick register added to bar[0].addr
KickPioOff == 16
\* status bit tested by virtio_rnd_k_set_status
VIRTIO_CR_STATUS_DRIVER_OK == 4
VIRTIO_MSI_NO_VECTOR == 65535

\* enum VBS_K_STATUS
VIRTIO_DEV_INITIAL      == "INITIAL"
VIRTIO_DEV_PRE_INIT     == "PRE_INIT"
VIRTIO_DEV_INIT_FAILED  == "INIT_FAILED"
VIRTIO_DEV_INIT_SUCCESS == "INIT_SUCCESS"
VIRTIO_DEV_START_FAILED == "START_FAILED"
VIRTIO_DEV_STARTED      == "STARTED"

\* the two operation tables
virtio_rnd_ops   == [name |-> "virtio_rnd", nvq |-> OpsNvq,
                     qnotify |-> "virtio_rnd_notify",
                     set_status |-> "NULL"]
\* the kernel table with the drain handler left armed
virtio_rnd_ops_k_drain == [name |-> "virtio_rnd", nvq |-> OpsNvq,
                           qnotify |-> "virtio_rnd_notify",
                           set_status |-> "virtio_rnd_k_set_status"]
\* the table bound when offload is requested (lines 111-122)
virtio_rnd_ops_k == [name |-> "virtio_rnd", nvq |-> OpsNvq,
                     qnotify |-> "virtio_rnd_k_no_notify",
                     set_status |-> "virtio_rnd_k_set_status"]
\* no table bound yet (virtio_linkup not called)
NoOps == [name |-> "", nvq |-> 0, qnotify |-> "NULL", set_status |-> "NULL"]

(* --------------------------- environment ------------------------------- *)
\* descriptor returned by open("/dev/random")
RandomFd == 3
\* descriptor returned by open("/dev/vbs_rng")
VbsFd == 4
\* rnd->base.dev->vmctx->vmid
VmId == 1
\* rnd->base.dev->bar[0].addr
Bar0Addr == 4096
\* the MSI-X table entry of vector 0
MteAddr == 65024
MteData == 33
\* guest frame number the guest programs into the queue
GuestPfn == 5

(* ------------------------ option string parser ------------------------- *)
\* C strings are sequences of characters; a char* is [nil, s]
Str(s) == [nil |-> FALSE, s |-> s]
NullStr == [nil |-> TRUE, s |-> <<>>]

RECURSIVE FirstAt(_, _, _)
\* index of the first occurrence of character c in s at or after i, 0 if none
FirstAt(s, c, i) ==
    IF i > Len(s) THEN 0
    ELSE IF s[i] = c THEN i
    ELSE FirstAt(s, c, i + 1)

\* strsep(&p, delim) on a non-NULL p: the token and the new value of p
Strsep(s, c) ==
    LET i == FirstAt(s, c, 1) IN
    IF i = 0 THEN [tok |-> s, rest |-> NullStr]
    ELSE [tok |-> SubSeq(s, 1, i - 1), rest |-> Str(SubSeq(s, i + 1, Len(s)))]

\* strncmp(opt, "on", 2) == 0
StrncmpOn2(s) == Len(s) >= 2 /\ s[1] = "o" /\ s[2] = "n"

\* body of the while loop for one token: the new kstat
TokenKstat(tok, kstat) ==
    LET r == Strsep(tok, "=") IN
    IF (~r.rest.nil) /\ StrncmpOn2(r.rest.s) THEN VIRTIO_DEV_PRE_INIT ELSE kstat

RECURSIVE ParseLoop(_, _)
\* while ((opt = strsep(&opts, ",")) != NULL) { ... }
ParseLoop(p, kstat) ==
    IF p.nil THEN kstat
    ELSE LET r == Strsep(p.s, ",") IN
         ParseLoop(r.rest, TokenKstat(r.tok, kstat))

\* kstat after the option loop, from its initial value VIRTIO_DEV_INITIAL
ParseOpts(p) == ParseLoop(p, VIRTIO_DEV_INITIAL)

KernelEqOn == <<"k","e","r","n","e","l","=","o","n">>
KernelEqOff == <<"k","e","r","n","e","l","=","o","f","f">>
\* option strings handed to init
OptInputs ==
    { NullStr,
      Str(<<>>),
      Str(KernelEqOn),
      Str(KernelEqOff),
      Str(<<"k","e","r","n","e","l">>),
      Str(<<"k","e","r","n","e","l","=">>),
      Str(<<"=","o","n">>),
      Str(<<"f","o","o","=","o","n">>),
      Str(KernelEqOn \o <<"l","y">>),
      Str(<<"x",",">> \o KernelEqOn),
      Str(KernelEqOn \o <<",">> \o KernelEqOff) }

(* ------------------------------- state --------------------------------- *)
VARIABLES
    pc,        \* position inside virtio_rnd_init or, in ConcSpec, inside the
               \* loop of virtio_rnd_notify; "idle" outside them
    phase,     \* "none", "attached", "init_failed", "detached"
    opts,      \* the option string init was called with
    kstat,     \* local kstat of virtio_rnd_init
    probeLen,  \* local len of virtio_rnd_init: result of the probe read
    rnd,       \* the struct virtio_rnd: "none", "live", "freed"
    arg,       \* dev->arg: "NULL" or "rnd"
    vops,      \* rnd->base.vops
    fd,        \* rnd->fd
    randOpen,  \* the /dev/random descriptor is open in the process
    status,    \* rnd->vbs_k.status
    kfd,       \* rnd->vbs_k.fd
    chanOpen,  \* the /dev/vbs_rng descriptor is open in the process
    kdev,      \* rnd->vbs_k.dev
    kvqs,      \* rnd->vbs_k.vqs
    vq,        \* rnd->vq: qsize, pfn, msix_idx
    avail,     \* descriptor chains the guest made available, oldest first
    used,      \* chains released to the guest: id and reported length
    saveUsed,  \* used index at the previous completion signal
    added,     \* number of chains the guest has submitted
    batch,     \* what the last guest kick did
    calls,     \* control-channel calls and the release of the instance, in order
    lastOp,    \* the operation that ran last
    aborted    \* the process was aborted by a failed assert

vars == <<pc, phase, opts, kstat, probeLen, rnd, arg, vops, fd, randOpen, status, kfd,
          chanOpen, kdev, kvqs, vq, avail, used, saveUsed, added, batch,
          calls, lastOp, aborted>>

\* the fields of rnd->vbs_k and the session bookkeeping
kvars == <<status, kfd, chanOpen, kdev, kvqs, calls>>
\* the virtqueue and its rings
qvars == <<vq, avail, used, saveUsed, added, batch>>
\* what only init and deinit change
ivars == <<pc, phase, opts, kstat, probeLen, rnd, arg, vops, fd, randOpen>>

\* struct vbs_dev_info after memset 0
ZeroDev == [name |-> "", vmid |-> 0, nvq |-> 0, negotiated_features |-> 0,
            pio_range_start |-> 0, pio_range_len |-> 0]
\* one entry of vbs_vqs_info.vqs after memset 0
ZeroVqRec == [qsize |-> 0, pfn |-> 0, msix_idx |-> 0,
              msix_addr |-> 0, msix_data |-> 0]
\* struct vbs_vqs_info after memset 0
ZeroVqs == [nvq |-> 0, vqs |-> [i \in 0 .. (OpsNvq - 1) |-> ZeroVqRec]]
\* struct virtio_vq_info inside the calloc'ed instance
ZeroVq == [qsize |-> 0, pfn |-> 0, msix_idx |-> 0]
\* nothing recorded for a kick yet
NoBatch == [handler |-> "none", pre |-> <<>>, fdValid |-> FALSE,
            reads |-> <<>>, log |-> <<>>]

\* one entry of calls: the call and whether it reported success
Call(op, ok) == [op |-> op, ok |-> ok]

Init ==
    /\ pc = "idle"
    /\ phase = "none"
    /\ opts = NullStr
    /\ kstat = VIRTIO_DEV_INITIAL
    /\ probeLen = 0
    /\ rnd = "none"
    /\ arg = "NULL"
    /\ vops = NoOps
    /\ fd = 0
    /\ randOpen = FALSE
    /\ status = VIRTIO_DEV_INITIAL
    /\ kfd = 0
    /\ chanOpen = FALSE
    /\ kdev = ZeroDev
    /\ kvqs = ZeroVqs
    /\ vq = ZeroVq
    /\ avail = <<>>
    /\ used = <<>>
    /\ saveUsed = 0
    /\ added = 0
    /\ batch = NoBatch
    /\ calls = <<>>
    /\ lastOp = "none"
    /\ aborted = FALSE

(* ---------------------------- virtio_rnd_init -------------------------- *)
\* lines 349-360: the option loop chooses kstat
InitParse(o) ==
    /\ ~aborted /\ pc = "idle" /\ phase = "none"
    /\ opts' = o
    /\ kstat' = ParseOpts(o)
    /\ pc' = "init_probe"
    /\ lastOp' = "init"
    /\ UNCHANGED <<phase, probeLen, rnd, arg, vops, fd, randOpen, aborted>>
    /\ UNCHANGED kvars /\ UNCHANGED qvars

\* a probe read of zero bytes taken as success
ProbeFailed_neg(len) == len < 0

\* the test of line 373
ProbeFailed(len) == len <= 0

\* lines 362-384: open and probe /dev/random, allocate the instance
InitProbe(openOk, len, callocOk) ==
    /\ ~aborted /\ pc = "init_probe"
    /\ lastOp' = "init"
    /\ IF ~openOk
       THEN \* assert(fd >= 0) fails
            /\ aborted' = TRUE
            /\ UNCHANGED <<pc, phase, probeLen, rnd, randOpen, status>>
       ELSE /\ randOpen' = TRUE
            /\ aborted' = FALSE
            /\ probeLen' = len
            /\ IF ProbeFailed(len) \/ ~callocOk
               THEN \* return -1
                    /\ pc' = "idle"
                    /\ phase' = "init_failed"
                    /\ UNCHANGED <<rnd, status>>
               ELSE /\ rnd' = "live"
                    /\ status' = kstat
                    /\ pc' = "init_link"
                    /\ UNCHANGED phase
    /\ UNCHANGED <<opts, kstat, arg, vops, fd, kfd, chanOpen, kdev, kvqs, calls>>
    /\ UNCHANGED qvars

\* virtio_rnd_kernel_init succeeded or not: the status init stores
KernelInitStatus(openOk) ==
    IF openOk THEN VIRTIO_DEV_INIT_SUCCESS ELSE VIRTIO_DEV_INIT_FAILED

\* lines 405-417 with virtio_rnd_kernel_init (199-214)
InitLink(openOk) ==
    /\ ~aborted /\ pc = "init_link"
    /\ lastOp' = "init"
    /\ pc' = "init_fallback"
    /\ IF status = VIRTIO_DEV_PRE_INIT
       THEN /\ vops' = virtio_rnd_ops_k
            /\ arg' = "rnd"
            /\ status' = KernelInitStatus(openOk)
            /\ IF openOk
               THEN /\ kfd' = VbsFd
                    /\ chanOpen' = TRUE
                    /\ calls' = Append(calls, Call("open", TRUE))
                    /\ kdev' = ZeroDev
                    /\ kvqs' = ZeroVqs
               ELSE /\ kfd' = -1
                    /\ calls' = Append(calls, Call("open", FALSE))
                    /\ UNCHANGED <<chanOpen, kdev, kvqs>>
       ELSE UNCHANGED <<vops, arg, status, kfd, chanOpen, calls, kdev, kvqs>>
    /\ UNCHANGED <<phase, opts, kstat, probeLen, rnd, fd, randOpen, aborted>>
    /\ UNCHANGED qvars

\* the fallback taken only when offload was not requested
NeedFallback_initial(st) == st = VIRTIO_DEV_INITIAL

\* the condition of line 418
NeedFallback(st) ==
    st = VIRTIO_DEV_INITIAL \/ st # VIRTIO_DEV_INIT_SUCCESS

\* lines 418-422: fall back to the user-space table
InitFallback ==
    /\ ~aborted /\ pc = "init_fallback"
    /\ lastOp' = "init"
    /\ pc' = "init_finish"
    /\ IF NeedFallback(status)
       THEN vops' = virtio_rnd_ops /\ arg' = "rnd"
       ELSE UNCHANGED <<vops, arg>>
    /\ UNCHANGED <<phase, opts, kstat, probeLen, rnd, fd, randOpen, aborted>>
    /\ UNCHANGED kvars /\ UNCHANGED qvars

\* lines 424-446: queue size, entropy handle, interrupt registration
InitFinish(intrOk) ==
    /\ ~aborted /\ pc = "init_finish"
    /\ lastOp' = "init"
    /\ pc' = "idle"
    /\ fd' = RandomFd
    /\ IF intrOk
       THEN /\ phase' = "attached"
            /\ vq' = [vq EXCEPT !.qsize = VIRTIO_RND_RINGSZ,
                                !.msix_idx = VIRTIO_MSI_NO_VECTOR]
            /\ UNCHANGED <<rnd, calls>>
       ELSE /\ phase' = "init_failed"
            /\ rnd' = "freed"
            /\ calls' = Append(calls, Call("free", TRUE))
            /\ vq' = [vq EXCEPT !.qsize = VIRTIO_RND_RINGSZ]
    /\ UNCHANGED <<opts, kstat, probeLen, arg, vops, randOpen, aborted>>
    /\ UNCHANGED <<status, kfd, chanOpen, kdev, kvqs>>
    /\ UNCHANGED <<avail, used, saveUsed, added, batch>>

(* ------------------------- guest side of the queue --------------------- *)
\* the guest makes one more descriptor chain of one buffer available
AddChain(len) ==
    /\ ~aborted /\ pc = "idle" /\ phase = "attached"
    /\ added < MaxChains
    /\ added' = added + 1
    /\ avail' = Append(avail, [id |-> added + 1, len |-> len])
    /\ lastOp' = "add"
    /\ UNCHANGED <<vq, used, saveUsed, batch, aborted>>
    /\ UNCHANGED ivars /\ UNCHANGED kvars

\* the guest programs the queue address and its MSI-X vector
SetupQueue(vec) ==
    /\ ~aborted /\ pc = "idle" /\ phase = "attached"
    /\ vq.pfn = 0
    /\ vq' = [vq EXCEPT !.pfn = GuestPfn, !.msix_idx = vec]
    /\ lastOp' = "setup"
    /\ UNCHANGED <<avail, used, saveUsed, added, batch, aborted>>
    /\ UNCHANGED ivars /\ UNCHANGED kvars

(* ----------------------- VBS-K interface functions --------------------- *)
\* virtio_rnd_kernel_dev_set: the record it fills
KernelDevSet(name, vmid, nvq, feature, pio_start, pio_len) ==
    [name |-> name, vmid |-> vmid, nvq |-> nvq,
     negotiated_features |-> feature,
     pio_range_start |-> pio_start, pio_range_len |-> pio_len]

\* virtio_rnd_kernel_vq_set: return code and the records after the call
KernelVqSet(kv, nvq, idx, qsize, pfn, msix_idx, msix_addr, msix_data) ==
    IF nvq <= idx
    THEN [rc |-> -1, kvqs |-> kv]
    ELSE [rc |-> 0,
          kvqs |-> [nvq |-> nvq,
                    vqs |-> [kv.vqs EXCEPT ![idx] =
                               [qsize |-> qsize, pfn |-> pfn,
                                msix_idx |-> msix_idx,
                                msix_addr |-> msix_addr,
                                msix_data |-> msix_data]]]]

RECURSIVE VqSetLoop(_, _, _, _)
\* the for loop of virtio_rnd_k_set_status over the queues, from index i
VqSetLoop(kv, i, nvq, q) ==
    IF ~(i < nvq) THEN [rc |-> 0, kvqs |-> kv]
    ELSE LET hasVec == q.msix_idx # VIRTIO_MSI_NO_VECTOR
             r == KernelVqSet(kv, nvq, i, q.qsize, q.pfn, q.msix_idx,
                              IF hasVec THEN MteAddr ELSE 0,
                              IF hasVec THEN MteData ELSE 0)
         IN  IF r.rc < 0 THEN r ELSE VqSetLoop(r.kvqs, i + 1, nvq, q)

\* status & VIRTIO_CR_STATUS_DRIVER_OK
DriverOk(v) == (v \div VIRTIO_CR_STATUS_DRIVER_OK) % 2 = 1

\* the handshake also run for a session that a reset returned to INITIAL
HandshakeDue_again(st, v) ==
    st \in {VIRTIO_DEV_INIT_SUCCESS, VIRTIO_DEV_INITIAL} /\ DriverOk(v)

\* the handshake also retried from START_FAILED
HandshakeDue_retry(st, v) ==
    st \in {VIRTIO_DEV_INIT_SUCCESS, VIRTIO_DEV_START_FAILED} /\ DriverOk(v)

\* the condition of line 148
HandshakeDue(st, v) == st = VIRTIO_DEV_INIT_SUCCESS /\ DriverOk(v)

\* the status stored after virtio_rnd_kernel_start returned
StartStatus(startOk) ==
    IF startOk THEN VIRTIO_DEV_STARTED ELSE VIRTIO_DEV_START_FAILED

\* virtio_rnd_k_set_status(rnd, v)
KSetStatus(v, startOk) ==
    IF HandshakeDue(status, v)
    THEN LET nvq == vops.nvq
             r == VqSetLoop(kvqs, 0, nvq, vq)
         IN  /\ kdev' = KernelDevSet(vops.name, VmId, nvq, 0,
                                     Bar0Addr + KickPioOff, KickPioLen)
             /\ kvqs' = r.kvqs
             /\ IF r.rc < 0
                THEN UNCHANGED <<status, calls>>
                ELSE /\ calls' = Append(calls, Call("start", startOk))
                     /\ status' = StartStatus(startOk)
    ELSE UNCHANGED <<status, kdev, kvqs, calls>>

\* values the guest writes to the device status register
StatusValues == {1, 3, 7, 11}

\* results vbs_kernel_start can give for a status write of v: it is called
\* only by a handshake
StartResults(v) ==
    IF vops.set_status = "virtio_rnd_k_set_status" /\ HandshakeDue(status, v)
    THEN BOOLEAN
    ELSE {TRUE}

\* guest write of a non-zero value to the status register: the bound
\* set_status callback runs, if any
StatusWrite(v, startOk) ==
    /\ ~aborted /\ pc = "idle" /\ phase = "attached"
    /\ lastOp' = "status"
    /\ IF vops.set_status = "virtio_rnd_k_set_status"
       THEN KSetStatus(v, startOk)
       ELSE UNCHANGED <<status, kdev, kvqs, calls>>
    /\ UNCHANGED <<kfd, chanOpen, aborted>>
    /\ UNCHANGED ivars /\ UNCHANGED qvars

\* virtio_reset_dev: the generic queue state is cleared
VirtioResetDev ==
    /\ vq' = [vq EXCEPT !.pfn = 0, !.msix_idx = VIRTIO_MSI_NO_VECTOR]
    /\ avail' = <<>>
    /\ used' = <<>>
    /\ saveUsed' = 0

\* the teardown also run for a session whose start failed
ResetTearsDown_any(st) ==
    st \in {VIRTIO_DEV_STARTED, VIRTIO_DEV_START_FAILED}

\* the condition of line 297
ResetTearsDown(st) == st = VIRTIO_DEV_STARTED

\* results vbs_kernel_stop and vbs_kernel_reset can give in a reset: they
\* are called only by the teardown
ResetResults == IF ResetTearsDown(status) THEN BOOLEAN ELSE {TRUE}

\* a reset that examines the results of the stop and reset calls
Reset_checked(stopOk, resetOk) ==
    /\ ~aborted /\ pc = "idle" /\ phase = "attached"
    /\ lastOp' = "reset"
    /\ VirtioResetDev
    /\ IF ResetTearsDown(status)
       THEN /\ calls' = calls \o <<Call("stop", stopOk), Call("reset", resetOk)>>
            /\ IF stopOk /\ resetOk
               THEN /\ kdev' = ZeroDev
                    /\ kvqs' = ZeroVqs
                    /\ status' = VIRTIO_DEV_INITIAL
               ELSE UNCHANGED <<kdev, kvqs, status>>
       ELSE UNCHANGED <<calls, kdev, kvqs, status>>
    /\ UNCHANGED <<kfd, chanOpen, added, batch, aborted>>
    /\ UNCHANGED ivars

\* virtio_rnd_reset: guest write of 0 to the status register
Reset(stopOk, resetOk) ==
    /\ ~aborted /\ pc = "idle" /\ phase = "attached"
    /\ lastOp' = "reset"
    /\ VirtioResetDev
    /\ IF ResetTearsDown(status)
       THEN /\ calls' = calls \o <<Call("stop", stopOk), Call("reset", resetOk)>>
            /\ kdev' = ZeroDev
            /\ kvqs' = ZeroVqs
            /\ status' = VIRTIO_DEV_INITIAL
       ELSE UNCHANGED <<calls, kdev, kvqs, status>>
    /\ UNCHANGED <<kfd, chanOpen, added, batch, aborted>>
    /\ UNCHANGED ivars

(* --------------------------- virtio_rnd_notify ------------------------- *)
\* vq_has_descs
VqHasDescs(av) == av # <<>>

\* vq_endchains: the completion signal; it interrupts the guest when chains
\* were released since the previous signal
VqEndchains(us, saved, usedAll) ==
    [ev |-> "end", id |-> 0, len |-> usedAll, intr |-> (Len(us) # saved)]

\* results of the read() calls of one batch, one per chain popped: an error,
\* nothing, or between one byte and the whole buffer; no read follows one
\* that returned <= 0
ReadResults(av) ==
    { f \in UNION { [1 .. n -> -1 .. MaxLen] : n \in 0 .. Len(av) } :
        /\ \A k \in 1 .. Len(f) : f[k] <= av[k].len /\ (k < Len(f) => f[k] > 0)
        /\ Len(f) < Len(av) => (Len(f) > 0 /\ f[Len(f)] <= 0) }

\* the chain released with one byte less than was read
RelLen_short(len) == len - 1

\* the byte count handed to vq_relchain for a read that returned len
RelLen(len) == len

\* a read of a single byte taken as a failure
ReadOk_strict(len) == len > 1

\* the assertion of line 328
ReadOk(len) == len > 0

RECURSIVE DrainLoop(_, _, _, _, _)
\* the while loop of virtio_rnd_notify; k counts the chains popped so far
DrainLoop(av, us, log, rd, k) ==
    IF ~VqHasDescs(av)
    THEN [avail |-> av, used |-> us, log |-> log, aborted |-> FALSE]
    ELSE LET c == Head(av)
             len == rd[k + 1]
             got == Append(log, [ev |-> "get", id |-> c.id, len |-> c.len,
                                 intr |-> FALSE])
         IN  IF ~ReadOk(len)
             THEN \* assert(len > 0) fails with the chain popped
                  [avail |-> Tail(av), used |-> us, log |-> got,
                   aborted |-> TRUE]
             ELSE DrainLoop(Tail(av),
                            Append(us, [id |-> c.id, len |-> RelLen(len)]),
                            Append(got, [ev |-> "rel", id |-> c.id,
                                         len |-> RelLen(len), intr |-> FALSE]),
                            rd, k + 1)

\* only descriptors below -1 taken as invalid
FdInvalid_below(f) == f < -1

\* the test of line 315
FdInvalid(f) == f < 0

\* the completion signal raised before the loop instead of after it
Notify_early(rd) ==
    IF FdInvalid(fd)
    THEN /\ batch' = [handler |-> "virtio_rnd_notify", pre |-> avail,
                      fdValid |-> FALSE, reads |-> <<>>,
                      log |-> <<VqEndchains(used, saveUsed, 0)>>]
         /\ saveUsed' = Len(used)
         /\ UNCHANGED <<avail, used, aborted>>
    ELSE LET r == DrainLoop(avail, used, <<VqEndchains(used, saveUsed, 1)>>,
                            rd, 0) IN
         /\ avail' = r.avail
         /\ used' = r.used
         /\ aborted' = r.aborted
         /\ batch' = [handler |-> "virtio_rnd_notify", pre |-> avail,
                      fdValid |-> TRUE, reads |-> rd, log |-> r.log]
         /\ saveUsed' = Len(used)

\* virtio_rnd_notify(rnd, vq) with the given read results
Notify(rd) ==
    IF FdInvalid(fd)
    THEN /\ batch' = [handler |-> "virtio_rnd_notify", pre |-> avail,
                      fdValid |-> FALSE, reads |-> <<>>,
                      log |-> <<VqEndchains(used, saveUsed, 0)>>]
         /\ saveUsed' = Len(used)
         /\ UNCHANGED <<avail, used, aborted>>
    ELSE LET r == DrainLoop(avail, used, <<>>, rd, 0) IN
         /\ avail' = r.avail
         /\ used' = r.used
         /\ aborted' = r.aborted
         /\ IF r.aborted
            THEN /\ batch' = [handler |-> "virtio_rnd_notify", pre |-> avail,
                              fdValid |-> TRUE, reads |-> rd, log |-> r.log]
                 /\ UNCHANGED saveUsed
            ELSE /\ batch' = [handler |-> "virtio_rnd_notify", pre |-> avail,
                              fdValid |-> TRUE, reads |-> rd,
                              log |-> Append(r.log,
                                             VqEndchains(r.used, saveUsed, 1))]
                 /\ saveUsed' = Len(r.used)

\* virtio_rnd_k_no_notify: prints a warning, touches nothing
KNoNotify ==
    /\ batch' = [handler |-> "virtio_rnd_k_no_notify", pre |-> avail,
                 fdValid |-> ~FdInvalid(fd), reads |-> <<>>, log |-> <<>>]
    /\ UNCHANGED <<avail, used, saveUsed, aborted>>

\* the reads a kick can make: none unless the drain loop runs
KickReads ==
    IF vops.qnotify = "virtio_rnd_notify" /\ ~FdInvalid(fd)
    THEN ReadResults(avail)
    ELSE {<<>>}

\* guest kick of the queue: the bound qnotify callback runs
Kick(rd) ==
    /\ ~aborted /\ pc = "idle" /\ phase = "attached"
    /\ lastOp' = "kick"
    /\ IF vops.qnotify = "virtio_rnd_notify"
       THEN Notify(rd)
       ELSE KNoNotify
    /\ UNCHANGED <<vq, added>>
    /\ UNCHANGED ivars /\ UNCHANGED kvars

(* --------------------------- virtio_rnd_deinit ------------------------- *)
\* the teardown keyed on the wrong status
DeinitTearsDown_wrong(st) == st = VIRTIO_DEV_INIT_SUCCESS

\* the condition of line 460
DeinitTearsDown(st) == st = VIRTIO_DEV_STARTED

\* results vbs_kernel_stop and vbs_kernel_reset can give in a deinit
DeinitResults ==
    IF arg # "NULL" /\ DeinitTearsDown(status) THEN BOOLEAN ELSE {TRUE}

\* the body of virtio_rnd_deinit: it takes no lock
DeinitBody(stopOk, resetOk) ==
    /\ lastOp' = "deinit"
    /\ IF arg = "NULL"
       THEN \* rnd == NULL: return
            /\ UNCHANGED <<phase, rnd>>
            /\ UNCHANGED kvars
       ELSE /\ phase' = "detached"
            /\ rnd' = "freed"
            /\ IF DeinitTearsDown(status)
               THEN /\ calls' = calls \o <<Call("stop", stopOk),
                                           Call("reset", resetOk),
                                           Call("close", TRUE),
                                           Call("free", TRUE)>>
                    /\ kdev' = ZeroDev
                    /\ kvqs' = ZeroVqs
                    /\ status' = VIRTIO_DEV_INITIAL
                    /\ kfd' = -1
                    /\ chanOpen' = FALSE
               ELSE /\ calls' = Append(calls, Call("free", TRUE))
                    /\ UNCHANGED <<status, kfd, chanOpen, kdev, kvqs>>
    /\ UNCHANGED <<pc, opts, kstat, probeLen, arg, vops, fd, randOpen, aborted>>
    /\ UNCHANGED qvars

\* virtio_rnd_deinit on a slot whose instance has not been released, called
\* while no other handler runs
Deinit(stopOk, resetOk) ==
    /\ ~aborted /\ pc = "idle" /\ rnd # "freed"
    /\ DeinitBody(stopOk, resetOk)

(* ------------------ virtio_rnd_notify, one chain at a time ------------- *)
\* the kick handler is entered on the vCPU thread, which holds the instance
\* lock until the handler returns: lines 311-318
NotifyBegin ==
    /\ ~aborted /\ pc = "idle" /\ phase = "attached"
    /\ vops.qnotify = "virtio_rnd_notify"
    /\ lastOp' = "kick"
    /\ IF FdInvalid(fd)
       THEN /\ batch' = [handler |-> "virtio_rnd_notify", pre |-> avail,
                         fdValid |-> FALSE, reads |-> <<>>,
                         log |-> <<VqEndchains(used, saveUsed, 0)>>]
            /\ saveUsed' = Len(used)
            /\ UNCHANGED pc
       ELSE /\ batch' = [handler |-> "virtio_rnd_notify", pre |-> avail,
                         fdValid |-> TRUE, reads |-> <<>>, log |-> <<>>]
            /\ pc' = "notify_loop"
            /\ UNCHANGED saveUsed
    /\ UNCHANGED <<phase, opts, kstat, probeLen, rnd, arg, vops, fd, randOpen>>
    /\ UNCHANGED <<vq, avail, used, added, aborted>>
    /\ UNCHANGED kvars

\* what a step of the loop can do with the instance: it reads rnd->fd, so
\* once the instance is freed the step may fault or go on with stale memory
LoopFaults == IF rnd = "freed" THEN BOOLEAN ELSE {FALSE}

\* one iteration of the while loop: lines 320-334
NotifyStep(len, fault) ==
    /\ ~aborted /\ pc = "notify_loop"
    /\ VqHasDescs(avail)
    /\ len <= Head(avail).len
    /\ lastOp' = "kick"
    /\ LET c == Head(avail)
           got == Append(batch.log, [ev |-> "get", id |-> c.id, len |-> c.len,
                                     intr |-> FALSE])
       IN  IF fault
           THEN /\ aborted' = TRUE
                /\ UNCHANGED <<avail, used, batch>>
           ELSE /\ avail' = Tail(avail)
                /\ IF ~ReadOk(len)
                   THEN /\ aborted' = TRUE
                        /\ batch' = [batch EXCEPT !.reads = Append(@, len),
                                                  !.log = got]
                        /\ UNCHANGED used
                   ELSE /\ aborted' = FALSE
                        /\ used' = Append(used, [id |-> c.id,
                                                 len |-> RelLen(len)])
                        /\ batch' = [batch EXCEPT
                              !.reads = Append(@, len),
                              !.log = Append(got, [ev |-> "rel", id |-> c.id,
                                                   len |-> RelLen(len),
                                                   intr |-> FALSE])]
    /\ UNCHANGED <<vq, saveUsed, added>>
    /\ UNCHANGED ivars /\ UNCHANGED kvars

\* the loop finds the queue empty: line 335, and the handler returns
NotifyEnd ==
    /\ ~aborted /\ pc = "notify_loop"
    /\ ~VqHasDescs(avail)
    /\ lastOp' = "kick"
    /\ pc' = "idle"
    /\ batch' = [batch EXCEPT
                   !.log = Append(@, VqEndchains(used, saveUsed, 1))]
    /\ saveUsed' = Len(used)
    /\ UNCHANGED <<phase, opts, kstat, probeLen, rnd, arg, vops, fd, randOpen>>
    /\ UNCHANGED <<vq, avail, used, added, aborted>>
    /\ UNCHANGED kvars

\* virtio_rnd_deinit called from the thread that tears the VM down: nothing
\* in it waits for a batch in progress
DeinitConc(stopOk, resetOk) ==
    /\ ~aborted /\ pc \in {"idle", "notify_loop"} /\ rnd # "freed"
    /\ DeinitBody(stopOk, resetOk)

(* ---------------------------- specification ---------------------------- *)
Next ==
    \/ \E o \in OptInputs : InitParse(o)
    \/ \E openOk \in BOOLEAN, len \in -1 .. 1, callocOk \in BOOLEAN :
          InitProbe(openOk, len, callocOk)
    \/ \E openOk \in BOOLEAN : InitLink(openOk)
    \/ InitFallback
    \/ \E intrOk \in BOOLEAN : InitFinish(intrOk)
    \/ \E len \in 1 .. MaxLen : AddChain(len)
    \/ \E vec \in {0, VIRTIO_MSI_NO_VECTOR} : SetupQueue(vec)
    \/ \E v \in StatusValues : \E startOk \in StartResults(v) :
          StatusWrite(v, startOk)
    \/ \E stopOk \in ResetResults, resetOk \in ResetResults :
          Reset(stopOk, resetOk)
    \/ \E rd \in KickReads : Kick(rd)
    \/ \E stopOk \in DeinitResults, resetOk \in DeinitResults :
          Deinit(stopOk, resetOk)

Spec == Init /\ [][Next]_vars

\* virtio_rnd_notify as a handler of its own: the instance is bound to the
\* user-space table and its entropy handle is either valid or invalid
InitNotify ==
    /\ pc = "idle"
    /\ phase = "attached"
    /\ opts = NullStr
    /\ kstat = VIRTIO_DEV_INITIAL
    /\ probeLen = 1
    /\ rnd = "live"
    /\ arg = "rnd"
    /\ vops = virtio_rnd_ops
    /\ fd \in {-1, RandomFd}
    /\ randOpen = ~FdInvalid(fd)
    /\ status = VIRTIO_DEV_INITIAL
    /\ kfd = 0
    /\ chanOpen = FALSE
    /\ kdev = ZeroDev
    /\ kvqs = ZeroVqs
    /\ vq = [qsize |-> VIRTIO_RND_RINGSZ, pfn |-> 0,
             msix_idx |-> VIRTIO_MSI_NO_VECTOR]
    /\ avail = <<>>
    /\ used = <<>>
    /\ saveUsed = 0
    /\ added = 0
    /\ batch = NoBatch
    /\ calls = <<>>
    /\ lastOp = "none"
    /\ aborted = FALSE

NextNotify ==
    \/ \E len \in 1 .. MaxLen : AddChain(len)
    \/ \E vec \in {0, VIRTIO_MSI_NO_VECTOR} : SetupQueue(vec)
    \/ \E rd \in KickReads : Kick(rd)

NotifySpec == InitNotify /\ [][NextNotify]_vars

\* the drain handler on the vCPU thread, interleaved with the guest, with a
\* reset (which waits for the instance lock, so runs between handlers only)
\* and with deinit on another thread
NextConc ==
    \/ \E len \in 1 .. MaxLen : AddChain(len)
    \/ \E vec \in {0, VIRTIO_MSI_NO_VECTOR} : SetupQueue(vec)
    \/ NotifyBegin
    \/ \E len \in -1 .. MaxLen, fault \in LoopFaults : NotifyStep(len, fault)
    \/ NotifyEnd
    \/ \E stopOk \in ResetResults, resetOk \in ResetResults :
          Reset(stopOk, resetOk)
    \/ \E stopOk \in DeinitResults, resetOk \in DeinitResults :
          DeinitConc(stopOk, resetOk)

ConcSpec == InitNotify /\ [][NextConc]_vars

(* ------------------------ helpers of the properties -------------------- *)
\* the names of the calls made so far, in order
OpsOf(c) == [i \in 1 .. Len(c) |-> c[i].op]
\* the call op has been made
Called(op) == \E i \in 1 .. Len(calls) : calls[i].op = op
\* the last n entries of a sequence
LastN(s, n) == SubSeq(s, Len(s) - n + 1, Len(s))
\* the kernel backend services the queue
KernelServes == status = VIRTIO_DEV_STARTED
\* the user-space drain handler is the bound notify handler
UserServes == vops.qnotify = "virtio_rnd_notify"
\* init has returned success and the instance has not been released
Attached == phase = "attached" /\ pc = "idle"

(* ---------------------------------- C1 --------------------------------- *)
\* C1: after a successful init exactly one backend services kicks: the kernel
\* backend is started and the no-notify handler is bound, or the kernel
\* backend is not started and the user-space drain handler is bound.
C1_ExactlyOneBackend ==
    Attached =>
        \/ KernelServes /\ vops.qnotify = "virtio_rnd_k_no_notify"
        \/ ~KernelServes /\ UserServes

(* ---------------------------------- C2 --------------------------------- *)
StatusEdges ==
    { <<VIRTIO_DEV_INITIAL, VIRTIO_DEV_PRE_INIT>>,
      <<VIRTIO_DEV_PRE_INIT, VIRTIO_DEV_INIT_SUCCESS>>,
      <<VIRTIO_DEV_PRE_INIT, VIRTIO_DEV_INIT_FAILED>>,
      <<VIRTIO_DEV_INIT_SUCCESS, VIRTIO_DEV_STARTED>>,
      <<VIRTIO_DEV_INIT_SUCCESS, VIRTIO_DEV_START_FAILED>>,
      <<VIRTIO_DEV_STARTED, VIRTIO_DEV_INITIAL>> }

\* C2: every change of the session status follows one edge of
\* INITIAL -> PRE_INIT -> {INIT_SUCCESS | INIT_FAILED},
\* INIT_SUCCESS -> {STARTED | START_FAILED}, STARTED -> INITIAL; in particular
\* INIT_FAILED and START_FAILED are never left.
C2_StatusPath ==
    [][status' # status => <<status, status'>> \in StatusEdges]_vars

\* a session that went INITIAL, PRE_INIT, INIT_SUCCESS, STARTED and back
C2_Witness ==
    /\ status = VIRTIO_DEV_INITIAL
    /\ OpsOf(calls) = <<"open", "start", "stop", "reset">>

(* ---------------------------------- C3 --------------------------------- *)
\* C3 as stated: whatever the status before it, a reset leaves the session
\* INITIAL with all per-queue records zeroed.
C3_ResetAlwaysInitial ==
    lastOp = "reset" => status = VIRTIO_DEV_INITIAL /\ kvqs = ZeroVqs

\* C3 amended: a reset of a STARTED session leaves it INITIAL with the device
\* and per-queue records zeroed; a reset in any other status leaves the
\* status and the records as they were.
C3_ResetOnlyFromStarted ==
    [][lastOp' = "reset" =>
          IF status = VIRTIO_DEV_STARTED
          THEN status' = VIRTIO_DEV_INITIAL /\ kvqs' = ZeroVqs /\ kdev' = ZeroDev
          ELSE status' = status /\ kvqs' = kvqs /\ kdev' = kdev]_vars

\* a reset has torn down a started session
C3_Witness ==
    /\ lastOp = "reset"
    /\ status = VIRTIO_DEV_INITIAL
    /\ kvqs = ZeroVqs
    /\ Len(calls) >= 2
    /\ LastN(OpsOf(calls), 2) = <<"stop", "reset">>

(* ---------------------------------- C4 --------------------------------- *)
\* the last kick ran the drain loop with a valid handle and every read filled
\* the whole buffer
FullBatch ==
    /\ lastOp = "kick"
    /\ batch.handler = "virtio_rnd_notify"
    /\ batch.fdValid
    /\ Len(batch.reads) = Len(batch.pre)
    /\ \A k \in 1 .. Len(batch.pre) : batch.reads[k] = batch.pre[k].len

\* the releases of the last batch, in order
Released == SelectSeq(batch.log, LAMBDA e : e.ev = "rel")

\* C4: with a valid handle, N pending chains and reads that fill every
\* buffer, the batch releases exactly the N chains in order, each reporting
\* the length of its buffer, ends with the queue empty and raises exactly one
\* completion signal, after the last release.
C4_DrainReleasesAll ==
    FullBatch =>
        LET n == Len(batch.pre) IN
        /\ ~aborted
        /\ avail = <<>>
        /\ Len(Released) = n
        /\ \A k \in 1 .. n : /\ Released[k].id = batch.pre[k].id
                             /\ Released[k].len = batch.pre[k].len
        /\ Len(used) >= n
        /\ LastN(used, n) = [k \in 1 .. n |-> [id |-> batch.pre[k].id,
                                                len |-> batch.pre[k].len]]
        /\ Len(SelectSeq(batch.log, LAMBDA e : e.ev = "end")) = 1
        /\ batch.log[Len(batch.log)].ev = "end"
        /\ Len(batch.log) = 2 * n + 1

\* a batch of two chains of the same length, both filled
C4_Witness ==
    /\ FullBatch
    /\ Len(batch.pre) >= 2
    /\ batch.pre[1].len = batch.pre[2].len
    /\ Len(Released) = Len(batch.pre)

(* ---------------------------------- C5 --------------------------------- *)
\* C5: a kick handled by virtio_rnd_notify with an invalid entropy handle
\* pops and releases nothing, makes no read, leaves the pending chains
\* pending and raises exactly one completion signal, with used_all_avail 0.
C5_InvalidHandle ==
    [][(lastOp' = "kick" /\ UserServes /\ fd < 0) =>
          /\ avail' = avail
          /\ used' = used
          /\ ~aborted'
          /\ batch'.reads = <<>>
          /\ Len(batch'.log) = 1
          /\ batch'.log[1].ev = "end"
          /\ batch'.log[1].len = 0]_vars

\* a kick with an invalid handle found chains pending and left them
C5_Witness ==
    /\ lastOp = "kick"
    /\ batch.handler = "virtio_rnd_notify"
    /\ ~batch.fdValid
    /\ Len(batch.pre) >= 2
    /\ avail = batch.pre

(* ---------------------------------- C6 --------------------------------- *)
\* C6: when the probe read returns <= 0 bytes init fails with no instance
\* allocated, no operation table bound to the slot and the control channel
\* not opened, whatever the option string.
C6_ProbeFailure ==
    (phase = "init_failed" /\ probeLen <= 0) =>
        /\ rnd = "none"
        /\ arg = "NULL"
        /\ vops = NoOps
        /\ ~Called("open")
        /\ ~chanOpen
        /\ kfd = 0
        /\ calls = <<>>

\* the probe failed in an init that was asked for kernel offload
C6_Witness ==
    /\ phase = "init_failed"
    /\ pc = "idle"
    /\ probeLen <= 0
    /\ opts = Str(KernelEqOn)
    /\ kstat = VIRTIO_DEV_PRE_INIT

(* ---------------------------------- C7 --------------------------------- *)
\* C7: deinit of a STARTED session issues stop, then reset, sets the session
\* INITIAL, closes the control channel, once, and then releases the
\* instance; deinit with an absent device argument does none of these.
C7_Deinit ==
    [][lastOp' = "deinit" =>
          /\ (arg = "NULL" =>
                 UNCHANGED <<calls, status, kfd, chanOpen, rnd, kdev, kvqs,
                             phase>>)
          /\ (arg # "NULL" /\ status = VIRTIO_DEV_STARTED =>
                 /\ OpsOf(calls') =
                       OpsOf(calls) \o <<"stop", "reset", "close", "free">>
                 /\ Cardinality({i \in 1 .. Len(calls') :
                                     calls'[i].op = "close"}) = 1
                 /\ status' = VIRTIO_DEV_INITIAL
                 /\ kvqs' = ZeroVqs /\ kdev' = ZeroDev
                 /\ kfd' = -1
                 /\ ~chanOpen'
                 /\ rnd' = "freed")]_vars

\* a started session has been detached
C7_Witness ==
    /\ lastOp = "deinit"
    /\ phase = "detached"
    /\ OpsOf(calls) = <<"open", "start", "stop", "reset", "close", "free">>

(* ---------------------------------- C8 --------------------------------- *)
RECURSIVE Split(_, _)
\* the tokens of s between occurrences of c
Split(s, c) ==
    LET i == FirstAt(s, c, 1) IN
    IF i = 0 THEN <<s>>
    ELSE <<SubSeq(s, 1, i - 1)>> \o Split(SubSeq(s, i + 1, Len(s)), c)

\* key=value with a key, a value and one "="
WellFormedToken(tok) ==
    LET eqs == {i \in 1 .. Len(tok) : tok[i] = "="} IN
    Cardinality(eqs) = 1 /\ \A i \in eqs : 1 < i /\ i < Len(tok)

\* no option string, an empty one, or one without any key=value token
EmptyOrMalformed(p) ==
    \/ p.nil
    \/ p.s = <<>>
    \/ LET toks == Split(p.s, ",") IN
       \A k \in 1 .. Len(toks) : ~WellFormedToken(toks[k])

\* C8: with "kernel=on" the status chosen is PRE_INIT when the probe is about
\* to run; with an empty or malformed option string the session stays
\* INITIAL, the control channel is never opened and the user-space table is
\* bound at init.
C8_OptionChoice ==
    /\ (pc = "init_probe" /\ opts = Str(KernelEqOn) =>
           kstat = VIRTIO_DEV_PRE_INIT)
    /\ (EmptyOrMalformed(opts) =>
           /\ kstat = VIRTIO_DEV_INITIAL
           /\ status = VIRTIO_DEV_INITIAL
           /\ ~Called("open")
           /\ (Attached => vops = virtio_rnd_ops))

(* ---------------------------------- C9 --------------------------------- *)
\* C9: once start has failed the user-space backend services the device:
\* the drain handler is bound and it is what every later kick runs.
C9_StartFailedUserServes ==
    (Attached /\ status = VIRTIO_DEV_START_FAILED) =>
        /\ UserServes
        /\ (lastOp = "kick" => batch.handler = "virtio_rnd_notify")

(* ---------------------------------- C10 -------------------------------- *)
\* offload was not requested, or the control channel failed to open
NoOffload ==
    \/ kstat # VIRTIO_DEV_PRE_INIT
    \/ \E i \in 1 .. Len(calls) : calls[i].op = "open" /\ ~calls[i].ok

\* C10: without offload the user-space table is bound when init returns and
\* stays bound until the instance is released; every kick runs the drain
\* handler and no kernel start, stop or reset is ever issued.
C10_UserBackendPermanent ==
    (pc = "idle" /\ phase \in {"attached", "detached"} /\ NoOffload) =>
        /\ vops = virtio_rnd_ops
        /\ \A i \in 1 .. Len(calls) : calls[i].op \notin {"start", "stop", "reset"}
        /\ (lastOp = "kick" => batch.handler = "virtio_rnd_notify")

\* the control channel failed to open and a later kick was drained in user
\* space
C10_Witness ==
    /\ Attached
    /\ status = VIRTIO_DEV_INIT_FAILED
    /\ lastOp = "kick"
    /\ Len(Released) >= 1

(* ---------------------------------- C11 -------------------------------- *)
\* C11 as stated: no error outside init ever aborts the process.
C11_Contained ==
    aborted => lastOp = "init"

\* the last read of the last batch returned <= 0
LastReadFailed ==
    /\ batch.handler = "virtio_rnd_notify"
    /\ Len(batch.reads) > 0
    /\ batch.reads[Len(batch.reads)] <= 0

\* C11 amended: the process is aborted only by a failed assertion, which is
\* the entropy source failing to open in init or an entropy read returning
\* <= 0 in a notify batch; a control-channel open failure and a start failure
\* leave the process running with the failure recorded in the session.
C11_AbortOnlyByAssert ==
    /\ aborted =>
          \/ lastOp = "init" /\ pc = "init_probe" /\ ~randOpen
          \/ lastOp = "kick" /\ LastReadFailed
    /\ (lastOp \in {"init", "status"} /\ randOpen) => ~aborted

\* the control channel failed to open, the device stayed attached, and a
\* later entropy read of 0 or less aborted the process
C11_Witness ==
    /\ aborted
    /\ lastOp = "kick"
    /\ status = VIRTIO_DEV_INIT_FAILED
    /\ LastReadFailed

(* ---------------------------------- C12 -------------------------------- *)
\* some comma-separated token of the option string is exactly kernel=on
HasKernelOn(p) ==
    /\ ~p.nil
    /\ LET toks == Split(p.s, ",") IN
       \E k \in 1 .. Len(toks) : toks[k] = KernelEqOn

\* C12: only the token kernel=on enables offload: for every option string
\* without it the status chosen by the option loop and the session status
\* stay INITIAL, and the control channel is not opened.
C12_OnlyKernelOn ==
    ~HasKernelOn(opts) =>
        /\ kstat = VIRTIO_DEV_INITIAL
        /\ status = VIRTIO_DEV_INITIAL
        /\ ~Called("open")

(* ---------------------------------- C14 -------------------------------- *)
\* the completion signals of the last batch
Ends == SelectSeq(batch.log, LAMBDA e : e.ev = "end")
\* the chains the last batch popped
Popped == SelectSeq(batch.log, LAMBDA e : e.ev = "get")

\* C14: a batch of the drain handler that runs to its end raises one
\* completion signal, and that signal interrupts the guest if and only if the
\* batch processed at least one chain; a kick that finds the queue empty
\* raises a signal without an interrupt.
C14_InterruptIffProcessed ==
    (lastOp = "kick" /\ batch.handler = "virtio_rnd_notify" /\ ~aborted) =>
        /\ Len(Ends) = 1
        /\ Ends[1].intr <=> (Len(Popped) >= 1)
        /\ batch.pre = <<>> => ~Ends[1].intr

\* a kick found the queue empty after an earlier batch had released chains
C14_Witness ==
    /\ lastOp = "kick"
    /\ batch.handler = "virtio_rnd_notify"
    /\ batch.pre = <<>>
    /\ Len(used) >= 1
    /\ Len(Ends) = 1
    /\ ~Ends[1].intr

(* ---------------------------------- C16 -------------------------------- *)
\* C16: after deinit of an attached device every handle the instance opened
\* is closed: the entropy source handle and the control channel, whatever the
\* session status was at detach.
C16_HandlesClosed ==
    phase = "detached" => ~randOpen /\ ~chanOpen

(* ---------------------------------- C17 -------------------------------- *)
\* C17: when the interrupt registration of init fails, init has released the
\* instance, the entropy source handle and the control channel.
C17_InitFailureReleasesAll ==
    (phase = "init_failed" /\ rnd = "freed") => ~randOpen /\ ~chanOpen

(* ---------------------------------- C18 -------------------------------- *)
\* C18: whenever the session is STARTED the handler bound for guest kicks is
\* the no-notify handler, and a kick in that state pops and releases no
\* chain: the queue and the used ring are as the kick found them.
C18_StartedDisarmsDrain ==
    status = VIRTIO_DEV_STARTED =>
        /\ vops.qnotify = "virtio_rnd_k_no_notify"
        /\ lastOp = "kick" =>
              /\ batch.handler = "virtio_rnd_k_no_notify"
              /\ batch.log = <<>>
              /\ avail = batch.pre
              /\ used = <<>>

\* the guest kicked a STARTED session with a chain available
C18_Witness ==
    /\ status = VIRTIO_DEV_STARTED
    /\ lastOp = "kick"
    /\ Len(avail) >= 1
    /\ batch.pre = avail

(* ---------------------------------- C20 -------------------------------- *)
\* the calls a step adds to the control channel history
NewCalls == SubSeq(calls', Len(calls) + 1, Len(calls'))
\* the positions of the calls named in ops
PosOf(c, ops) == { i \in 1 .. Len(c) : c[i].op \in ops }
\* the last start, stop or reset made so far was a start that succeeded
StartedByCalls ==
    LET ps == PosOf(calls, {"start", "stop", "reset"}) IN
    /\ ps # {}
    /\ LET m == CHOOSE i \in ps : \A j \in ps : j <= i IN
       calls[m] = Call("start", TRUE)

\* C20: a step issues kernel stop or kernel reset only from a STARTED session,
\* in a guest reset or a deinit, as one stop followed by one reset, after a
\* start that succeeded; whatever the two calls report, the step zeroes the
\* device and queue records and sets the session to INITIAL.
C20_StopResetOnlyFromStarted ==
    [][PosOf(NewCalls, {"stop", "reset"}) # {} =>
          /\ status = VIRTIO_DEV_STARTED
          /\ lastOp' \in {"reset", "deinit"}
          /\ PosOf(NewCalls, {"stop"}) = {1}
          /\ PosOf(NewCalls, {"reset"}) = {2}
          /\ StartedByCalls
          /\ status' = VIRTIO_DEV_INITIAL
          /\ kdev' = ZeroDev
          /\ kvqs' = ZeroVqs]_vars

\* a guest reset whose stop and reset calls both failed left the session
\* INITIAL with the records zeroed
C20_Witness ==
    /\ lastOp = "reset"
    /\ Len(calls) >= 2
    /\ LastN(calls, 2) = <<Call("stop", FALSE), Call("reset", FALSE)>>
    /\ status = VIRTIO_DEV_INITIAL
    /\ kdev = ZeroDev
    /\ kvqs = ZeroVqs

(* ---------------------------------- C19 -------------------------------- *)
\* the number of kernel start calls made so far
StartCount(c) == Cardinality(PosOf(c, {"start"}))

\* C19: a step issues kernel start only as a guest status write with the
\* DRIVER_OK bit set, made while the session is INIT_SUCCESS, and only when no
\* start was issued before; so start is issued at most once for an instance,
\* never again after a reset, and never twice without a stop in between.
C19_StartOnce ==
    [][StartCount(calls') # StartCount(calls) =>
          /\ status = VIRTIO_DEV_INIT_SUCCESS
          /\ lastOp' = "status"
          /\ StartCount(calls) = 0
          /\ StartCount(calls') = 1
          /\ \A v \in StatusValues, startOk \in BOOLEAN :
                StatusWrite(v, startOk) =>
                    (v \div VIRTIO_CR_STATUS_DRIVER_OK) % 2 = 1]_vars

\* a status write made after a reset of a STARTED session issued no
\* second start
C19_Witness ==
    /\ lastOp = "status"
    /\ status = VIRTIO_DEV_INITIAL
    /\ OpsOf(calls) = <<"open", "start", "stop", "reset">>
    /\ phase = "attached"

(* ---------------------------------- C15 -------------------------------- *)
\* C15: reset and deinit wait for the instance lock that the drain loop holds
\* for its whole batch, so while a batch is in progress the instance is not
\* released and the device stays attached.
C15_BatchHoldsInstance ==
    pc = "notify_loop" => rnd = "live" /\ phase = "attached"

====
